---- MODULE Spec2Model ----
(***************************************************************************)
(* A model of bot.py: the duration parser (parse_time_string), the         *)
(* giveaway command (create_gw) and the economy commands (bal, daily, pet, *)
(* work, snuggle, give) with their asyncio lock and the economy.json       *)
(* ledger document.                                                        *)
(*                                                                         *)
(* Strings are sequences of one-character strings.  Python's None is the   *)
(* integer -1 where the other values of the expression are naturals.       *)
(***************************************************************************)
EXTENDS Integers, Sequences, FiniteSets, TLC

VARIABLES
    \* ---- parse_time_string, called on its own
    time_str,     \* the argument of parse_time_string
    parsed,       \* TRUE once parse_time_string has returned
    result,       \* its return value (None or seconds)
    \* ---- the wall clock (datetime.utcnow)
    clock,
    \* ---- create_gw, one record per invocation
    gw,           \* the invocation's position and its local variables
    sent,         \* the kinds of message its ctx.send calls delivered
    \* ---- the channel: the announcement of each invocation
    message,      \* "none", "live" or "deleted"
    reactions,    \* the accounts whose entry reaction is on it now
    withdrawn,    \* the accounts that removed their entry and did not
                  \* enter again before the entrants were read
    \* ---- the economy commands
    cmd,          \* one record per invocation: position, arguments, locals
    disk,         \* the document in economy.json
    holder,       \* the invocation that holds _data_lock, or None
    waiters,      \* the invocations queued on _data_lock, oldest first
    ticks,        \* how often the clock has advanced under the commands
    serial,       \* the document had the commands run one at a time, each
                  \* whole when it acquired the lock
    replies,      \* how many ctx.send calls each invocation has made
    store         \* what the file system does with a write of economy.json:
                  \* "ok", "refuses" (open raises, the file is left as it
                  \* is) or "breaks" (the file is truncated, the dump raises)

parseVars == <<time_str, parsed, result>>

gwVars == <<gw, sent, message, reactions, withdrawn>>

ecoVars == <<cmd, disk, holder, waiters, ticks, serial, replies, store>>

vars == <<time_str, parsed, result, clock, gw, sent, message, reactions,
          withdrawn, cmd, disk, holder, waiters, ticks, serial, replies,
          store>>

-----------------------------------------------------------------------------
(* Bounds                                                                  *)

\* longest argument handed to parse_time_string on its own
MaxLen == 4

\* create_gw invocations
NumGw == 1

\* human accounts in the channel
NumHumans == 2

\* economy command invocations
MaxCmds == 2

\* seconds that pass while the economy commands run
MaxTicks == 1

-----------------------------------------------------------------------------
(* Strings                                                                 *)

None == 0 - 1

Digits == {"0", "1", "2"}

Whitespace == {" "}

\* the characters the arguments are drawn from: digits, the four unit
\* letters, an upper-case unit, a letter that is no unit, and a blank
Alphabet == Digits \cup {"d", "h", "m", "s", "H", "a"} \cup Whitespace

Strings(n) == UNION {[1..k -> Alphabet] : k \in 0..n}

\* str.lower() on one character
LowerChar(c) == IF c = "H" THEN "h" ELSE c

\* str.lower()
Lower(s) == [i \in 1..Len(s) |-> LowerChar(s[i])]

\* str.strip(): drop the leading and the trailing whitespace
RECURSIVE LStrip(_)
LStrip(s) ==
    IF s # <<>> /\ Head(s) \in Whitespace THEN LStrip(Tail(s)) ELSE s

RECURSIVE RStrip(_)
RStrip(s) ==
    IF s # <<>> /\ s[Len(s)] \in Whitespace
    THEN RStrip(SubSeq(s, 1, Len(s) - 1))
    ELSE s

Strip(s) == RStrip(LStrip(s))

\* str.isdigit(): at least one character and every character a digit
IsDigit(s) == Len(s) > 0 /\ \A i \in 1..Len(s) : s[i] \in Digits

DigitVal(c) == CASE c = "0" -> 0 [] c = "1" -> 1 [] c = "2" -> 2

\* int(s) for a string of decimal digits
RECURSIVE IntOf(_)
IntOf(s) ==
    IF s = <<>> THEN 0
    ELSE 10 * IntOf(SubSeq(s, 1, Len(s) - 1)) + DigitVal(s[Len(s)])

-----------------------------------------------------------------------------
(* parse_time_string                                                       *)

\* the length of the run of digits of s that starts at position i: what the
\* greedy \d+ of the pattern consumes there
RECURSIVE DigitRun(_, _)
DigitRun(s, i) ==
    IF i <= Len(s) /\ s[i] \in Digits THEN 1 + DigitRun(s, i + 1) ELSE 0

\* one optional group (?:(\d+)u)? of the pattern, tried at position i: when
\* a run of digits followed by the unit letter u stands there the group
\* consumes it and captures the digits, otherwise it matches the empty
\* string and captures nothing (g or "0" then reads it as "0").  A shorter
\* run cannot match, since the character after it is a digit, not u.
MatchGroup(s, i, u) ==
    LET n == DigitRun(s, i) IN
    IF n >= 1 /\ i + n <= Len(s) /\ s[i + n] = u
    THEN [pos |-> i + n + 1, val |-> IntOf(SubSeq(s, i, i + n - 1))]
    ELSE [pos |-> i, val |-> 0]

\* re.match(pattern, time_str): the four groups in order, then $ (the
\* stripped string has no trailing newline, so $ is the end of the string).
\* matched is FALSE where re.match returns None.
ReMatch(s) ==
    LET d == MatchGroup(s, 1, "d")
        h == MatchGroup(s, d.pos, "h")
        m == MatchGroup(s, h.pos, "m")
        sec == MatchGroup(s, m.pos, "s")
    IN  [matched |-> sec.pos = Len(s) + 1,
         groups |-> <<d.val, h.val, m.val, sec.val>>]

parse_time_string(str) ==
    LET s == Lower(Strip(str)) IN
    IF IsDigit(s) THEN IntOf(s)
    ELSE LET m == ReMatch(s) IN
         IF ~m.matched THEN None
         ELSE LET g == m.groups
                  total == g[1] * 86400 + g[2] * 3600 + g[3] * 60 + g[4]
              IN  IF total > 0 THEN total ELSE None

-----------------------------------------------------------------------------
(* create_gw                                                               *)

GwTasks == 1..NumGw

Humans == 1..NumHumans

\* the bot's own account: the one account with u.bot set
SelfBot == 0

Accounts == Humans \cup {SelfBot}

\* u.bot
IsBot(u) == u = SelfBot

\* the first token of the command: "0", "1", "1s", "0m"
TimeInputs == {<<"0">>, <<"1">>, <<"1", "s">>, <<"0", "m">>}

\* the last token of the command: "1", "2", "0", "a"
WinnerInputs == {<<"1">>, <<"2">>, <<"0">>, <<"a">>}

\* raw.split(): the time alone, time and winners, or time, reward, winners
RawInputs ==
    {<<t>> : t \in TimeInputs}
    \cup {<<t, w>> : t \in TimeInputs, w \in WinnerInputs}
    \cup {<<t, <<"a">>, w>> : t \in TimeInputs, w \in WinnerInputs}

\* int(winners_input): the value, or None where int raises ValueError
\* (the tokens hold no sign, so no value is negative)
IntOrValueError(tok) == IF IsDigit(tok) THEN IntOf(tok) ELSE None

\* the local variables of an invocation that has not started
GwIdle ==
    [pc |-> "idle", seconds |-> None, winners |-> None, created |-> None,
     end_time |-> None, left |-> None, users |-> <<>>, chosen |-> <<>>,
     report |-> ""]

InitGwVars ==
    /\ gw = [g \in GwTasks |-> GwIdle]
    /\ sent = [g \in GwTasks |-> <<>>]
    /\ message = [g \in GwTasks |-> "none"]
    /\ reactions = [g \in GwTasks |-> {}]
    /\ withdrawn = [g \in GwTasks |-> {}]

\* `await ctx.send(text); return` is reached: the invocation is left with
\* this one send to do, and reads none of its other locals again
Report(g, text) ==
    [gw EXCEPT ![g] = [GwIdle EXCEPT !.pc = "report", !.report = text]]

\* the invocation moves on to position pc.  Of its locals only winners is
\* read after the sleep has started (line 135): the others are dropped
\* from the state there
GwAt(g, pc) ==
    [gw EXCEPT ![g] = [GwIdle EXCEPT !.pc = pc, !.winners = gw[g].winners]]

\* the handler has returned (how = "returned") or an exception has left it
\* (how = "raised"): its locals are gone
Ended(g, how) == [gw EXCEPT ![g] = [GwIdle EXCEPT !.pc = how]]

\* a create that validates the winners before the time
CreateGwWinnersFirst(g, raw) ==
    /\ gw[g].pc = "idle"
    /\ LET tokens == raw
           seconds == parse_time_string(tokens[1])
           winners == IntOrValueError(tokens[Len(tokens)])
       IN  IF Len(tokens) < 2 THEN gw' = Report(g, "usage")
           ELSE IF winners = None \/ winners < 1
                THEN gw' = Report(g, "bad_winners")
           ELSE IF seconds = None THEN gw' = Report(g, "bad_time")
           ELSE gw' = [gw EXCEPT ![g].pc = "send_embed",
                                 ![g].seconds = seconds,
                                 ![g].winners = winners,
                                 ![g].created = clock,
                                 ![g].end_time = clock + seconds]
    /\ UNCHANGED <<parseVars, ecoVars, clock, sent, message, reactions, withdrawn>>

\* lines 64-96: split the command, validate the time, then the winners,
\* compute end_time and build the embed; the invocation is then at the
\* first await of the path taken.  The reward only fills the texts of the
\* two announcements, which are not modelled.
CreateGw(g, raw) ==
    /\ gw[g].pc = "idle"
    /\ LET tokens == raw
           time_input == tokens[1]
           winners_input == tokens[Len(tokens)]
           seconds == parse_time_string(time_input)
           winners == IntOrValueError(winners_input)
       IN  IF Len(tokens) < 2 THEN gw' = Report(g, "usage")
           ELSE IF seconds = None THEN gw' = Report(g, "bad_time")
           ELSE IF winners = None \/ winners < 1
                THEN gw' = Report(g, "bad_winners")
           ELSE gw' = [gw EXCEPT ![g].pc = "send_embed",
                                 ![g].seconds = seconds,
                                 ![g].winners = winners,
                                 ![g].created = clock,
                                 ![g].end_time = clock + seconds]
    /\ UNCHANGED <<parseVars, ecoVars, clock, sent, message, reactions, withdrawn>>

\* the one ctx.send of a failure path (lines 66, 75, 83, 102, 111, 121,
\* 128, 132) returns and the handler returns, or the send raises
SendReport(g) ==
    /\ gw[g].pc = "report"
    /\ \/ /\ sent' = [sent EXCEPT ![g] = Append(@, gw[g].report)]
          /\ gw' = Ended(g, "returned")
       \/ /\ gw' = Ended(g, "raised")
          /\ UNCHANGED sent
    /\ UNCHANGED <<parseVars, ecoVars, clock, message, reactions, withdrawn>>

\* line 99, gw_message = await ctx.send(embed=embed): the announcement is
\* published, or the channel refuses it (discord.Forbidden, lines 101-103),
\* or another exception leaves the handler
SendEmbed(g) ==
    /\ gw[g].pc = "send_embed"
    /\ \/ /\ sent' = [sent EXCEPT ![g] = Append(@, "giveaway")]
          /\ message' = [message EXCEPT ![g] = "live"]
          /\ gw' = [gw EXCEPT ![g].pc = "add_reaction"]
       \/ /\ gw' = Report(g, "forbidden")
          /\ UNCHANGED <<sent, message>>
       \/ /\ gw' = Ended(g, "raised")
          /\ UNCHANGED <<sent, message>>
    /\ UNCHANGED <<parseVars, ecoVars, clock, reactions, withdrawn>>

\* line 100, await gw_message.add_reaction: the bot's own reaction is put
\* on the announcement and the sleep of line 106 starts (a timer of the
\* event loop with `seconds` left to run), or the channel refuses it
\* (Forbidden), or another exception (the announcement is gone) leaves
\* the handler
AddReaction(g) ==
    /\ gw[g].pc = "add_reaction"
    /\ \/ /\ message[g] = "live"
          /\ reactions' = [reactions EXCEPT ![g] = @ \cup {SelfBot}]
          /\ gw' = [GwAt(g, "sleep") EXCEPT
                        ![g].left = gw[g].seconds]
       \/ /\ gw' = Report(g, "forbidden")
          /\ UNCHANGED reactions
       \/ /\ gw' = Ended(g, "raised")
          /\ UNCHANGED reactions
    /\ UNCHANGED <<parseVars, ecoVars, clock, sent, message, withdrawn>>

\* a sleep that returns only while the announcement is there
WakeIfLive(g) ==
    /\ gw[g].pc = "sleep"
    /\ gw[g].left = 0
    /\ message[g] = "live"
    /\ gw' = GwAt(g, "fetch")
    /\ UNCHANGED <<parseVars, ecoVars, clock, sent, message, reactions, withdrawn>>

\* a sleep that returns whatever time is left
WakeEarly(g) ==
    /\ gw[g].pc = "sleep"
    /\ gw' = GwAt(g, "fetch")
    /\ UNCHANGED <<parseVars, ecoVars, clock, sent, message, reactions, withdrawn>>

\* a sleep that returns only while no command holds _data_lock
WakeWhenLockFree(g) ==
    /\ gw[g].pc = "sleep"
    /\ gw[g].left = 0
    /\ holder = None
    /\ gw' = GwAt(g, "fetch")
    /\ UNCHANGED <<parseVars, ecoVars, clock, sent, message, reactions, withdrawn>>

\* line 106, await asyncio.sleep(seconds) returns once the time has passed
Wake(g) ==
    /\ gw[g].pc = "sleep"
    /\ gw[g].left = 0
    /\ gw' = GwAt(g, "fetch")
    /\ UNCHANGED <<parseVars, ecoVars, clock, sent, message, reactions, withdrawn>>

\* the invocation is done with the entrants of its announcement: they are
\* tracked no further
Forget(g) ==
    /\ reactions' = [reactions EXCEPT ![g] = {}]
    /\ withdrawn' = [withdrawn EXCEPT ![g] = {}]

\* lines 108-122, fetch_message and the search for the entry reaction in
\* the fetched message
FetchMessage(g) ==
    /\ gw[g].pc = "fetch"
    /\ \/ /\ message[g] = "live"
          /\ gw' = IF reactions[g] = {}
                   THEN Report(g, "no_reactions")
                   ELSE GwAt(g, "users")
          /\ IF reactions[g] = {} THEN Forget(g)
             ELSE UNCHANGED <<reactions, withdrawn>>
       \/ /\ gw' = Report(g, "fetch_failed")
          /\ Forget(g)
    /\ UNCHANGED <<parseVars, ecoVars, clock, sent, message>>

\* every account that ever put the reaction on
ReactionUsersEver(g) == reactions[g] \cup withdrawn[g]

\* the users of the reaction as the channel holds them now
ReactionUsers(g) == reactions[g]

\* a list of the accounts of S, in the order of their ids
RECURSIVE ListOf(_)
ListOf(S) ==
    IF S = {} THEN <<>>
    ELSE LET u == CHOOSE x \in S : \A y \in S : x <= y
         IN  <<u>> \o ListOf(S \ {u})

\* line 126: [u for u in ... if not u.bot]
NotBots(S) == {u \in S : ~IsBot(u)}

\* random.sample(users, k): the lists of k entries of users taken at k
\* different positions
Sample(users, k) ==
    {[i \in 1..k |-> users[pos[i]]] :
        pos \in {p \in [1..k -> 1..Len(users)] :
                    \A i, j \in 1..k : i # j => p[i] # p[j]}}

\* the comparison of line 135 turned around
ChooseFlipped(users, winners) ==
    IF Len(users) >= winners THEN {users} ELSE Sample(users, winners)

\* lines 135-138
Choose(users, winners) ==
    IF Len(users) <= winners THEN {users} ELSE Sample(users, winners)

\* lines 124-138, await reaction.users().flatten(): the entrants are read
\* and the winners drawn, or the read raises
ReadUsers(g) ==
    /\ gw[g].pc = "users"
    /\ \/ /\ message[g] = "live"
          /\ LET users == ListOf(NotBots(ReactionUsers(g))) IN
             IF users = <<>>
             THEN /\ gw' = Report(g, "no_participants")
                  /\ Forget(g)
             ELSE /\ \E chosen \in Choose(users, gw[g].winners) :
                       gw' = [gw EXCEPT ![g].pc = "send_result",
                                        ![g].users = users,
                                        ![g].chosen = chosen]
                  /\ UNCHANGED <<reactions, withdrawn>>
       \/ /\ gw' = Report(g, "users_failed")
          /\ Forget(g)
    /\ UNCHANGED <<parseVars, ecoVars, clock, sent, message>>

\* line 147, the resolution announcement
SendResult(g) ==
    /\ gw[g].pc = "send_result"
    /\ \/ /\ sent' = [sent EXCEPT ![g] = Append(@, "congratulations")]
          /\ gw' = Ended(g, "returned")
       \/ /\ gw' = Ended(g, "raised")
          /\ UNCHANGED sent
    /\ Forget(g)
    /\ UNCHANGED <<parseVars, ecoVars, clock, message>>

\* the entrants of an announcement are followed from the start of the
\* wait until the invocation has read them
Open(g) ==
    /\ message[g] = "live"
    /\ gw[g].pc \in {"sleep", "fetch", "users"}

\* a human account enters (the bot reacts at line 100 only)
React(g, u) ==
    /\ Open(g)
    /\ u \notin reactions[g]
    /\ reactions' = [reactions EXCEPT ![g] = @ \cup {u}]
    /\ withdrawn' = [withdrawn EXCEPT ![g] = @ \ {u}]
    /\ UNCHANGED <<parseVars, ecoVars, clock, gw, sent, message>>

\* an entry is removed (by the account, or by a moderator)
Unreact(g, u) ==
    /\ Open(g)
    /\ u \in reactions[g]
    /\ reactions' = [reactions EXCEPT ![g] = @ \ {u}]
    /\ withdrawn' = [withdrawn EXCEPT ![g] = @ \cup NotBots({u})]
    /\ UNCHANGED <<parseVars, ecoVars, clock, gw, sent, message>>

\* the announcement is deleted, and its reactions with it
DeleteMessage(g) ==
    /\ Open(g)
    /\ message' = [message EXCEPT ![g] = "deleted"]
    /\ Forget(g)
    /\ UNCHANGED <<parseVars, ecoVars, clock, gw, sent>>

\* a second passes for every running sleep.  The sleeps are timers of the
\* event loop; datetime.utcnow() is read once per invocation, for end_time
\* alone (line 86), so the wall clock is not followed under the giveaways.
Tick ==
    /\ \E g \in DOMAIN gw : gw[g].pc = "sleep" /\ gw[g].left > 0
    /\ gw' = [g \in DOMAIN gw |->
                IF gw[g].pc = "sleep" /\ gw[g].left > 0
                THEN [gw[g] EXCEPT !.left = @ - 1]
                ELSE gw[g]]
    /\ UNCHANGED <<parseVars, ecoVars, clock, sent, message, reactions,
                   withdrawn>>

-----------------------------------------------------------------------------
(* The economy: the ledger document                                        *)

DAILY_AMOUNT == 100
DAILY_COOLDOWN == 86400
PET_COOLDOWN == 1800
WORK_COOLDOWN == 3600
SNUGGLE_COOLDOWN == 3600

\* reward = 10 in snuggle_cmd
SnuggleReward == 10

\* random.randint(5, 25) and random.randint(20, 150): the two ends
PetRewards == {5, 25}
WorkRewards == {20, 150}

\* the ids of the members that issue commands
Users == {1, 2}

\* the amounts given
GiveAmounts == {0, 30}

\* utcnow() when the commands start: later than every cooldown after the
\* epoch, as every present date is
Epoch == 20 * DAILY_COOLDOWN

\* the document of a store that does not exist yet: {}
EmptyDoc == <<>>

\* the record _ensure_user_record creates
NewRecord ==
    [balance |-> 0, last_daily |-> 0, last_pet |-> 0, last_work |-> 0,
     last_snuggle |-> 0]

\* a document the commands have written before: user 1 claimed daily
\* 86399 s ago, worked and snuggled user 2 3599 s ago and petted 1799 s
\* ago, so each of its cooldowns ends in one second
UsedDoc ==
    (1 :> [balance |-> DAILY_AMOUNT + 20 + SnuggleReward + 5,
           last_daily |-> Epoch - (DAILY_COOLDOWN - 1),
           last_pet |-> Epoch - (PET_COOLDOWN - 1),
           last_work |-> Epoch - (WORK_COOLDOWN - 1),
           last_snuggle |-> Epoch - (SNUGGLE_COOLDOWN - 1)])
    @@ (2 :> [NewRecord EXCEPT !.balance = SnuggleReward])

InitDocs == {EmptyDoc, UsedDoc}

\* a load that yields {} whatever the file holds
ReadDataEmpty == EmptyDoc

\* _read_data: the document in the file ({} when there is no file)
ReadData == disk

\* a lookup that hands out a zero record whatever the document holds
EnsureUserRecordFresh(data, uid) ==
    [u \in DOMAIN data \cup {uid} |-> IF u = uid THEN NewRecord ELSE data[u]]

\* _ensure_user_record(data, user_id): data with a zero record added for
\* the user when it has none.  The key str(user_id) is one-to-one with the
\* id and never parsed back, so the id stands for it.
EnsureUserRecord(data, uid) ==
    IF uid \in DOMAIN data THEN data ELSE data @@ (uid :> NewRecord)

\* record['balance'] of a user in a document, 0 where it has no record
Balance(doc, uid) == IF uid \in DOMAIN doc THEN doc[uid].balance ELSE 0

\* the stored timestamp of a kind for a user, 0 where it has no record
Stamp(doc, uid, field) == IF uid \in DOMAIN doc THEN doc[uid][field] ELSE 0

Kinds == {"bal", "daily", "pet", "work", "snuggle", "give"}

ClaimKinds == {"daily", "pet", "work", "snuggle"}

\* the cooldown constant and the timestamp field of each kind
Cooldown(kind) ==
    CASE kind = "daily" -> DAILY_COOLDOWN
      [] kind = "pet" -> PET_COOLDOWN
      [] kind = "work" -> WORK_COOLDOWN
      [] kind = "snuggle" -> SNUGGLE_COOLDOWN

Field(kind) ==
    CASE kind = "daily" -> "last_daily"
      [] kind = "pet" -> "last_pet"
      [] kind = "work" -> "last_work"
      [] kind = "snuggle" -> "last_snuggle"

\* a gate that is still closed when exactly the cooldown has passed
CooldownActiveAtBoundary(now, last, cooldown) == now - last <= cooldown

\* `if now - last < COOLDOWN`
CooldownActive(now, last, cooldown) == now - last < cooldown

\* a test that only asks the sender to own something
InsufficientFundsLax(balance, amount) == balance <= 0

\* `if sender["balance"] < amount`
InsufficientFunds(balance, amount) == balance < amount

\* a claim that leaves the claimant's record alone in the document
ClaimedAlone(data, uid, field, reward, now) ==
    uid :> [data[uid] EXCEPT !.balance = @ + reward, ![field] = now]

\* rec["balance"] += reward; rec["last_..."] = now  (daily, pet, work)
Claimed(data, uid, field, reward, now) ==
    [data EXCEPT ![uid].balance = @ + reward, ![uid][field] = now]

\* a snuggle that stamps both members
SnuggledBothStamped(data, a, b, reward, now) ==
    [data EXCEPT ![a].balance = @ + reward,
                 ![b].balance = @ + reward,
                 ![a].last_snuggle = now,
                 ![b].last_snuggle = now]

\* lines 295-297: both balances, the initiator's timestamp
Snuggled(data, a, b, reward, now) ==
    [data EXCEPT ![a].balance = @ + reward,
                 ![b].balance = @ + reward,
                 ![a].last_snuggle = now]

\* a transfer that debits the sender only
Debited(data, sender, receiver, amount) ==
    [data EXCEPT ![sender].balance = @ - amount]

\* lines 322-323: debit the sender, credit the receiver
Transferred(data, sender, receiver, amount) ==
    [data EXCEPT ![sender].balance = @ - amount,
                 ![receiver].balance = @ + amount]

-----------------------------------------------------------------------------
(* The economy: the commands                                               *)

CmdIds == 1..MaxCmds

\* the commands issued: the kind, the author, the member argument (None
\* where it is left out, SelfBot for a bot), the amount, the reward drawn
CmdInput(kind, author, member, amount, reward) ==
    [kind |-> kind, author |-> author, member |-> member,
     amount |-> amount, reward |-> reward]

Commands ==
    UNION {
        {CmdInput("bal", a, m, None, None) : m \in {None} \cup (Users \ {a})}
        \cup {CmdInput("daily", a, None, None, DAILY_AMOUNT)}
        \cup {CmdInput("pet", a, None, None, r) : r \in PetRewards}
        \cup {CmdInput("work", a, None, None, r) : r \in WorkRewards}
        \cup {CmdInput("snuggle", a, m, None, SnuggleReward) :
                m \in {None} \cup Users}
        \cup {CmdInput("give", a, m, n, None) :
                m \in Users \ {a}, n \in GiveAmounts}
        \cup {CmdInput("give", a, m, 30, None) : m \in {SelfBot, a}}
        : a \in Users}

\* an invocation that has not started, and one that has ended
CmdIdle ==
    [pc |-> "idle", kind |-> "", author |-> None, member |-> None,
     amount |-> None, reward |-> None, now |-> None, last |-> None,
     data |-> EmptyDoc, outcome |-> "", remaining |-> None,
     loads |-> 0, saves |-> 0]

\* the handler is over: its locals are gone
Over == [CmdIdle EXCEPT !.pc = "done"]

InitEcoVars(doc) ==
    /\ cmd = [p \in CmdIds |-> CmdIdle]
    /\ disk = doc
    /\ holder = None
    /\ waiters = <<>>
    /\ ticks = 0
    /\ serial = doc
    /\ replies = [p \in CmdIds |-> 0]
    /\ store = "ok"

\* the member a command is about: `member or ctx.author` for bal
Target(c) == IF c.member = None THEN c.author ELSE c.member

\* what a command does to the document when it runs alone, from load to
\* save: the document it leaves in the file
Effect(doc, c) ==
    CASE c.kind = "bal" -> doc
      [] c.kind \in {"daily", "pet", "work"} ->
            LET data == EnsureUserRecord(doc, c.author)
                last == data[c.author][Field(c.kind)]
            IN  IF CooldownActive(c.now, last, Cooldown(c.kind)) THEN doc
                ELSE Claimed(data, c.author, Field(c.kind), c.reward, c.now)
      [] c.kind = "snuggle" ->
            LET data == EnsureUserRecord(
                            EnsureUserRecord(doc, c.author), c.member)
                last == data[c.author].last_snuggle
            IN  IF CooldownActive(c.now, last, SNUGGLE_COOLDOWN) THEN doc
                ELSE Snuggled(data, c.author, c.member, c.reward, c.now)
      [] c.kind = "give" ->
            LET data == EnsureUserRecord(
                            EnsureUserRecord(doc, c.author), c.member)
            IN  IF InsufficientFunds(data[c.author].balance, c.amount)
                THEN doc
                ELSE Transferred(data, c.author, c.member, c.amount)

\* give without its checks before the lock
EarlyReturnSnuggleOnly(c) ==
    CASE c.kind = "snuggle" /\ c.member = None -> "Usage"
      [] c.kind = "snuggle" /\ c.member = c.author -> "SelfTarget"
      [] OTHER -> ""

\* the checks before the lock: the reply of the early return, or "" when
\* the command goes on to the lock (lines 277-282 and 305-313)
EarlyReturn(c) ==
    CASE c.kind = "snuggle" /\ c.member = None -> "Usage"
      [] c.kind = "snuggle" /\ c.member = c.author -> "SelfTarget"
      [] c.kind = "give" /\ IsBot(c.member) -> "TargetIsAutomated"
      [] c.kind = "give" /\ c.amount <= 0 -> "InvalidAmount"
      [] c.kind = "give" /\ c.member = c.author -> "SelfTransfer"
      [] OTHER -> ""

\* a lock that never makes an invocation wait
LockAlwaysFree == TRUE

\* asyncio.Lock.acquire takes the lock at once when it is not held and no
\* invocation is queued for it
LockFree == holder = None /\ waiters = <<>>

\* data = _read_data()
Loaded(c) == [c EXCEPT !.data = ReadData, !.loads = @ + 1]

\* the body of `async with` after the load: the invocation as it reaches
\* _write_data (pc "save"), the refusal it sends under the lock (pc
\* "deny_send": cooldown active, insufficient funds) or, for bal, the end
\* of the block (pc "reply")
Applied(c) ==
    CASE c.kind = "bal" ->
           \* line 210: the record is created in memory only
           [c EXCEPT !.data = EnsureUserRecord(c.data, Target(c)),
                     !.outcome = "Balance", !.pc = "reply"]
      [] c.kind \in {"daily", "pet", "work"} ->
           LET data == EnsureUserRecord(c.data, c.author)
               last == data[c.author][Field(c.kind)]
           IN  IF CooldownActive(c.now, last, Cooldown(c.kind))
               THEN [c EXCEPT !.data = data, !.last = last,
                              !.remaining = Cooldown(c.kind) - (c.now - last),
                              !.outcome = "Denied", !.pc = "deny_send"]
               ELSE [c EXCEPT !.data = Claimed(data, c.author, Field(c.kind),
                                               c.reward, c.now),
                              !.last = last,
                              !.outcome = "Granted", !.pc = "save"]
      [] c.kind = "snuggle" ->
           LET data == EnsureUserRecord(
                           EnsureUserRecord(c.data, c.author), c.member)
               last == data[c.author].last_snuggle
           IN  IF CooldownActive(c.now, last, SNUGGLE_COOLDOWN)
               THEN [c EXCEPT !.data = data, !.last = last,
                              !.remaining = SNUGGLE_COOLDOWN - (c.now - last),
                              !.outcome = "Denied", !.pc = "deny_send"]
               ELSE [c EXCEPT !.data = Snuggled(data, c.author, c.member,
                                                c.reward, c.now),
                              !.last = last,
                              !.outcome = "Granted", !.pc = "save"]
      [] c.kind = "give" ->
           LET data == EnsureUserRecord(
                           EnsureUserRecord(c.data, c.author), c.member)
           IN  IF InsufficientFunds(data[c.author].balance, c.amount)
               THEN [c EXCEPT !.data = data,
                              !.outcome = "InsufficientFunds",
                              !.pc = "deny_send"]
               ELSE [c EXCEPT !.data = Transferred(data, c.author, c.member,
                                                   c.amount),
                              !.outcome = "Completed", !.pc = "save"]

\* the invocation p, as c, has the lock.  Nothing between the acquisition
\* and the next `await` suspends (the file is read and written
\* synchronously), so the block runs as one step: up to the release that
\* follows the save (or, for bal, the load), or up to the refusal sent
\* under the lock, which keeps the lock until DenySend.  The commands run
\* one at a time in the order of these steps.
Enter(p, c) ==
    LET a == Applied(Loaded(c))
    IN  IF a.pc = "save"
        THEN CASE store = "ok" ->
                    \* _write_data(data): the document is rewritten whole
                    /\ serial' = Effect(serial, c)
                    /\ disk' = a.data
                    /\ cmd' = [cmd EXCEPT ![p] = [a EXCEPT !.pc = "reply",
                                                           !.saves = @ + 1]]
                    /\ holder' = None
               [] store = "refuses" ->
                    \* line 175, open(..., "w") raises: the file is as it
                    \* was, the exception leaves the block and the handler
                    /\ serial' = serial
                    /\ disk' = disk
                    /\ cmd' = [cmd EXCEPT ![p] = [a EXCEPT !.pc = "raised"]]
                    /\ holder' = None
               [] store = "breaks" ->
                    \* line 175 truncates the file, line 176 raises: what
                    \* is left does not parse and loads as {} (170-171)
                    /\ serial' = serial
                    /\ disk' = EmptyDoc
                    /\ cmd' = [cmd EXCEPT ![p] = [a EXCEPT !.pc = "raised"]]
                    /\ holder' = None
        ELSE /\ serial' = Effect(serial, c)
             /\ disk' = disk
             /\ cmd' = [cmd EXCEPT ![p] = a]
             /\ holder' = IF a.pc = "deny_send" THEN p ELSE None

\* a command starts.  When a check before the lock fails, its one reply
\* is sent and the handler returns, having touched nothing the commands
\* share.  Otherwise `now` and the reward are taken and
\* `async with _data_lock` is reached: the lock is taken without
\* suspending, or the invocation queues for it.  Invocations are numbered
\* in the order they start.
Begin(p, c) ==
    /\ cmd[p].pc = "idle"
    /\ \A q \in 1..(p - 1) : cmd[q].pc # "idle"
    /\ LET early == EarlyReturn(c)
           started == [CmdIdle EXCEPT !.kind = c.kind, !.author = c.author,
                                      !.member = c.member,
                                      !.amount = c.amount,
                                      !.reward = c.reward]
       IN  IF early # ""
           THEN /\ cmd' = [cmd EXCEPT ![p] = Over]
                /\ replies' = [replies EXCEPT ![p] = @ + 1]
                /\ UNCHANGED <<disk, holder, waiters, serial>>
           ELSE LET timed == [started EXCEPT
                                !.now = IF c.kind = "bal" \/ c.kind = "give"
                                        THEN None ELSE clock]
                IN  /\ UNCHANGED replies
                    /\ IF LockFree
                       THEN /\ Enter(p, timed)
                            /\ UNCHANGED waiters
                       ELSE /\ cmd' = [cmd EXCEPT ![p] =
                                         [timed EXCEPT !.pc = "wait"]]
                            /\ waiters' = Append(waiters, p)
                            /\ UNCHANGED <<disk, holder, serial>>
    /\ UNCHANGED <<parseVars, gwVars, clock, ticks, store>>

\* the lock was released and p is the oldest in the queue: p takes it
Resume(p) ==
    /\ cmd[p].pc = "wait"
    /\ holder = None
    /\ waiters # <<>> /\ Head(waiters) = p
    /\ waiters' = Tail(waiters)
    /\ Enter(p, cmd[p])
    /\ UNCHANGED <<parseVars, gwVars, clock, ticks, replies, store>>

\* a refusal whose handler goes on to the reply after the lock
DenySendAndGoOn(p) ==
    /\ cmd[p].pc = "deny_send"
    /\ cmd' = [cmd EXCEPT ![p].pc = "reply"]
    /\ replies' = [replies EXCEPT ![p] = @ + 1]
    /\ holder' = None
    /\ UNCHANGED <<parseVars, gwVars, clock, disk, waiters, ticks, serial,
                   store>>

\* `await ctx.send(...)` of a refusal under the lock (cooldown active,
\* insufficient funds), then `return`: the lock is released as the block
\* is left, whether the send returns or raises
DenySend(p) ==
    /\ cmd[p].pc = "deny_send"
    /\ cmd' = [cmd EXCEPT ![p] = Over]
    /\ replies' = [replies EXCEPT ![p] = @ + 1]
    /\ holder' = None
    /\ UNCHANGED <<parseVars, gwVars, clock, disk, waiters, ticks, serial,
                   store>>

\* `await ctx.send(...)` after the lock (the success reply); the handler
\* then returns
Reply(p) ==
    /\ cmd[p].pc = "reply"
    /\ cmd' = [cmd EXCEPT ![p] = Over]
    /\ replies' = [replies EXCEPT ![p] = @ + 1]
    /\ UNCHANGED <<parseVars, gwVars, clock, disk, holder, waiters, ticks,
                   serial, store>>

\* a second passes
EcoTick ==
    /\ ticks < MaxTicks
    /\ ticks' = ticks + 1
    /\ clock' = clock + 1
    /\ UNCHANGED <<parseVars, gwVars, cmd, disk, holder, waiters, serial,
                   replies, store>>

-----------------------------------------------------------------------------
(* The specifications: the parser on its own (every argument up to MaxLen  *)
(* characters), the giveaways, the economy commands                        *)

InitParse ==
    /\ time_str \in Strings(MaxLen)
    /\ parsed = FALSE
    /\ result = None
    /\ clock = 0
    /\ InitGwVars
    /\ InitEcoVars(EmptyDoc)

CallParse ==
    /\ ~parsed
    /\ parsed' = TRUE
    /\ result' = parse_time_string(time_str)
    /\ UNCHANGED <<time_str, clock, gwVars, ecoVars>>

NextParse == CallParse

SpecParse == InitParse /\ [][NextParse]_vars

InitGw ==
    /\ time_str = <<>>
    /\ parsed = FALSE
    /\ result = None
    /\ clock = 0
    /\ InitGwVars
    /\ InitEcoVars(EmptyDoc)

NextGw ==
    \/ \E g \in GwTasks, raw \in RawInputs : CreateGw(g, raw)
    \/ \E g \in GwTasks : SendReport(g)
    \/ \E g \in GwTasks : SendEmbed(g)
    \/ \E g \in GwTasks : AddReaction(g)
    \/ \E g \in GwTasks : Wake(g)
    \/ \E g \in GwTasks : FetchMessage(g)
    \/ \E g \in GwTasks : ReadUsers(g)
    \/ \E g \in GwTasks : SendResult(g)
    \/ \E g \in GwTasks, u \in Humans : React(g, u)
    \/ \E g \in GwTasks, u \in Accounts : Unreact(g, u)
    \/ \E g \in GwTasks : DeleteMessage(g)
    \/ Tick

SpecGw == InitGw /\ [][NextGw]_vars

InitEco ==
    /\ time_str = <<>>
    /\ parsed = FALSE
    /\ result = None
    /\ clock = Epoch
    /\ InitGwVars
    /\ \E doc \in InitDocs : InitEcoVars(doc)

NextEco ==
    \/ \E p \in CmdIds, c \in Commands : Begin(p, c)
    \/ \E p \in CmdIds : Resume(p)
    \/ \E p \in CmdIds : DenySend(p)
    \/ \E p \in CmdIds : Reply(p)
    \/ EcoTick

SpecEco == InitEco /\ [][NextEco]_vars


-----------------------------------------------------------------------------
(* C2, C3, C4: the giveaway *)

\* C2: every giveaway that create_gw announces has winners >= 1 and an
\* end_time after its creation time (a strictly positive wait).  Stated of
\* the invocation right after its announcement is published.
C2_AnnouncedEndsAfterCreation ==
    \A g \in GwTasks :
        gw[g].pc = "add_reaction" =>
            /\ gw[g].winners >= 1
            /\ gw[g].end_time > gw[g].created
            /\ gw[g].seconds > 0

Range(s) == {s[i] : i \in 1..Len(s)}

Min(a, b) == IF a <= b THEN a ELSE b

\* C3: the winners drawn from n >= 1 entrants for k >= 1 requested winners
\* number min(n, k), are entrants, hold no account twice, and are all the
\* entrants when n <= k.
C3_WinnersAreMinNK ==
    \A g \in GwTasks :
        gw[g].pc = "send_result" =>
            LET users == gw[g].users
                chosen == gw[g].chosen
                n == Len(users)
                k == gw[g].winners
            IN  /\ n >= 1 /\ k >= 1
                /\ Len(chosen) = Min(n, k)
                /\ Range(chosen) \subseteq Range(users)
                /\ \A i, j \in 1..Len(chosen) :
                      i # j => chosen[i] # chosen[j]
                /\ n <= k => Range(chosen) = Range(users)

\* the draw of one winner among two entrants is about to be announced
C3_Witness ==
    \E g \in GwTasks :
        /\ gw[g].pc = "send_result"
        /\ Len(gw[g].users) = 2
        /\ gw[g].winners = 1
        /\ Len(gw[g].chosen) = 1

\* C4: the winners are drawn from the entrants as they stand when the
\* invocation reads them after the wait: every winner then has its entry
\* on the announcement, no account that removed its entry (and did not
\* enter again) wins, and no bot account wins.
C4_WinnersAreCurrentEntrants ==
    \A g \in GwTasks :
        gw[g].pc = "send_result" =>
            \A u \in Range(gw[g].chosen) :
                /\ u \in reactions[g]
                /\ u \notin withdrawn[g]
                /\ ~IsBot(u)

\* an account that entered during the wait has won while another one had
\* removed its entry, the bot's own reaction still standing
C4_Witness ==
    \E g \in GwTasks :
        /\ gw[g].pc = "send_result"
        /\ withdrawn[g] # {}
        /\ SelfBot \in reactions[g]
        /\ Range(gw[g].chosen) \cap Humans # {}

-----------------------------------------------------------------------------
(* C1 *)

\* t is empty, or digits followed by the unit letter u
IsUnitGroup(t, u) ==
    \/ t = <<>>
    \/ /\ Len(t) >= 2
       /\ t[Len(t)] = u
       /\ IsDigit(SubSeq(t, 1, Len(t) - 1))

UnitGroupVal(t) == IF t = <<>> THEN 0 ELSE IntOf(SubSeq(t, 1, Len(t) - 1))

\* the ways to cut s into a d part, an h part, an m part and an s part
GrammarCuts(s) ==
    {c \in (0..Len(s)) \X (0..Len(s)) \X (0..Len(s)) :
        /\ c[1] <= c[2] /\ c[2] <= c[3]
        /\ IsUnitGroup(SubSeq(s, 1, c[1]), "d")
        /\ IsUnitGroup(SubSeq(s, c[1] + 1, c[2]), "h")
        /\ IsUnitGroup(SubSeq(s, c[2] + 1, c[3]), "m")
        /\ IsUnitGroup(SubSeq(s, c[3] + 1, Len(s)), "s")}

GrammarSeconds(s, c) ==
      UnitGroupVal(SubSeq(s, 1, c[1])) * 86400
    + UnitGroupVal(SubSeq(s, c[1] + 1, c[2])) * 3600
    + UnitGroupVal(SubSeq(s, c[2] + 1, c[3])) * 60
    + UnitGroupVal(SubSeq(s, c[3] + 1, Len(s)))

\* what the duration grammar assigns to a text: the seconds, or None
GrammarValue(s) ==
    LET n == IF IsDigit(s) THEN IntOf(s)
             ELSE IF GrammarCuts(s) = {} THEN 0
             ELSE GrammarSeconds(s, CHOOSE c \in GrammarCuts(s) : TRUE)
    IN  IF n > 0 THEN n ELSE None

\* C1: parse_time_string returns None or a strictly positive number of
\* seconds: a bare integer n yields n, a text of the ordered grammar
\* d, h, m, s (each optional, any case) yields the sum of value x
\* {86400, 3600, 60, 1}, and an all-zero text (bare or compound), units out
\* of order and any other text yield None.
C1_ParseIsPositiveOrInvalid ==
    parsed =>
        /\ result = None \/ result > 0
        /\ result = GrammarValue(Lower(Strip(time_str)))

-----------------------------------------------------------------------------
(* C5, C6, C7: transfers and balances *)

StampFields == {"last_daily", "last_pet", "last_work", "last_snuggle"}

RECURSIVE SumBalances(_, _)
SumBalances(doc, users) ==
    IF users = {} THEN 0
    ELSE LET u == CHOOSE x \in users : TRUE
         IN  doc[u].balance + SumBalances(doc, users \ {u})

\* all the coins of a document
Total(doc) == SumBalances(doc, DOMAIN doc)

\* new is old with n coins moved from s to r and nothing else changed
\* (a record that was missing counts as the zero record)
MovedCoins(old, new, s, r, n) ==
    /\ DOMAIN new = DOMAIN old \cup {s, r}
    /\ Balance(new, s) = Balance(old, s) - n
    /\ Balance(new, r) = Balance(old, r) + n
    /\ \A u \in DOMAIN old \ {s, r} : new[u] = old[u]
    /\ \A u \in {s, r}, f \in StampFields : Stamp(new, u, f) = Stamp(old, u, f)

\* p runs its critical section in this step
Enters(p) ==
    /\ cmd[p].pc \in {"idle", "wait"}
    /\ cmd'[p].pc \in {"reply", "deny_send"}

\* C5: a completed give of a positive amount to another member debits the
\* sender and credits the receiver by exactly the amount in one write of
\* the document, so the sum of the two balances is kept; the give changes
\* the document in no other step, and no step of any command leaves a
\* document that holds fewer coins than the one before (a debit without
\* its credit is never there to be loaded).
C5_TransferIsAtomic ==
    [][/\ \A p \in CmdIds :
            LET c == cmd'[p] IN
            (Enters(p) /\ c.kind = "give") =>
                IF c.pc = "reply"
                THEN /\ c.outcome = "Completed" /\ c.saves = 1
                     /\ c.amount > 0 /\ c.member # c.author
                     /\ MovedCoins(disk, disk', c.author, c.member, c.amount)
                     /\   Balance(disk', c.author) + Balance(disk', c.member)
                        = Balance(disk, c.author) + Balance(disk, c.member)
                ELSE disk' = disk
       /\ \A p \in CmdIds :
            (/\ cmd[p].kind = "give" \/ cmd'[p].kind = "give"
             /\ cmd'[p] # cmd[p]
             /\ ~Enters(p)) => disk' = disk
       /\ Total(disk') >= Total(disk)
      ]_vars

\* a give has completed and is about to send "Transfer Complete"
C5_Witness ==
    \E p \in CmdIds :
        /\ cmd[p].kind = "give"
        /\ cmd[p].pc = "reply"
        /\ cmd[p].outcome = "Completed"
        /\ disk = cmd[p].data

\* the refusals of give that its arguments decide
RefusedByArguments(c) ==
    IsBot(c.member) \/ c.amount <= 0 \/ c.member = c.author

\* the gives that are refused on their arguments
RefusedGives ==
    {c \in Commands : c.kind = "give" /\ RefusedByArguments(c)}

\* C6: a give that is refused (the target is a bot, the amount is not
\* positive, the target is the sender, or the sender's persisted balance
\* is below the amount when the give takes the lock) changes no balance
\* and no timestamp of the persisted document in any of its steps and
\* never saves; a give refused on its arguments is over in one step.
C6_RefusedTransferChangesNothing ==
    [][/\ \A p \in CmdIds :
            (cmd[p].pc = "idle" /\ cmd'[p].pc # "idle") =>
                \A c \in RefusedGives :
                    Begin(p, c) => disk' = disk /\ cmd'[p].pc = "done"
       /\ \A p \in CmdIds :
            LET c == cmd'[p] IN
            (/\ Enters(p)
             /\ c.kind = "give"
             /\ \/ RefusedByArguments(c)
                \/ Balance(disk, c.author) < c.amount) =>
                /\ disk' = disk
                /\ c.pc = "deny_send" /\ c.saves = 0
       /\ \A p \in CmdIds :
            (/\ cmd[p].kind = "give" /\ cmd[p].pc = "deny_send"
             /\ cmd'[p] # cmd[p]) =>
                disk' = disk /\ cmd'[p].pc = "done"
      ]_vars

\* a sender that owns coins, but fewer than the amount, is being refused
C6_Witness ==
    \E p \in CmdIds :
        /\ cmd[p].kind = "give"
        /\ cmd[p].pc = "deny_send"
        /\ cmd[p].outcome = "InsufficientFunds"
        /\ cmd[p].saves = 0
        /\ Balance(disk, cmd[p].author) > 0
        /\ Balance(disk, cmd[p].author) < cmd[p].amount

\* C7: from a document whose balances are all >= 0, every balance of the
\* persisted document stays a natural number whatever commands run and
\* however they interleave.
C7_BalancesNeverNegative ==
    \A u \in DOMAIN disk : disk[u].balance \in Nat

\* a sender has given away all it owned
C7_Witness ==
    \E p \in CmdIds :
        /\ cmd[p].kind = "give"
        /\ cmd[p].pc = "reply"
        /\ cmd[p].saves = 1
        /\ cmd[p].amount > 0
        /\ Balance(disk, cmd[p].author) = 0

-----------------------------------------------------------------------------
(* C8: the cooldowns *)

\* the decision of a claim as it takes the lock: its `now` against the
\* timestamp of its kind in the persisted document
C8_Decision ==
    \A p \in CmdIds :
        LET c == cmd'[p] IN
        (Enters(p) /\ c.kind \in ClaimKinds) =>
            LET cooldown == Cooldown(c.kind)
                elapsed == c.now - Stamp(disk, c.author, Field(c.kind))
            IN  /\ c.outcome \in {"Granted", "Denied"}
                /\ c.outcome = "Granted" <=> elapsed >= cooldown
                /\ c.outcome = "Granted" =>
                      /\ c.pc = "reply" /\ c.saves = 1
                      /\ Stamp(disk', c.author, Field(c.kind)) = c.now
                /\ c.outcome = "Denied" =>
                      /\ c.pc = "deny_send"
                      /\ c.remaining = cooldown - elapsed
                      /\ disk' = disk

\* a timestamp of the persisted document changes only to the `now` of a
\* claim of that kind by that user, and by no less than the cooldown
C8_Stamping ==
    \A u \in Users, kind \in ClaimKinds :
        LET old == Stamp(disk, u, Field(kind))
            new == Stamp(disk', u, Field(kind))
        IN  (disk' # disk /\ new # old) =>
              /\ new - old >= Cooldown(kind)
              /\ \E p \in CmdIds :
                    /\ Enters(p)
                    /\ cmd'[p].kind = kind /\ cmd'[p].author = u
                    /\ cmd'[p].now = new

\* C8: a daily, pet, work or snuggle claim is Granted iff its `now` minus
\* the stored timestamp of its kind is at least the cooldown of the kind,
\* and is otherwise Denied with remaining = cooldown - elapsed; so a claim
\* right after a grant is Denied, a claim exactly the cooldown after it is
\* Granted, and two grants of a kind to a user are stamped no less than
\* the cooldown apart, `now` being taken before the lock.
C8_CooldownGate == [][C8_Decision /\ C8_Stamping]_vars

\* a claim was Granted exactly the cooldown after the last one and is
\* sending its reply, while a second claim of the kind by the same user
\* is being Denied against the new timestamp
C8_Witness ==
    \E p, q \in CmdIds :
        /\ cmd[p].kind \in ClaimKinds
        /\ cmd[p].pc = "reply" /\ cmd[p].outcome = "Granted"
        /\ cmd[p].now - cmd[p].last = Cooldown(cmd[p].kind)
        /\ cmd[q].kind = cmd[p].kind /\ cmd[q].author = cmd[p].author
        /\ cmd[q].pc = "deny_send" /\ cmd[q].outcome = "Denied"
        /\ cmd[q].last = cmd[p].now
        /\ cmd[q].remaining = Cooldown(cmd[q].kind) - (cmd[q].now - cmd[p].now)

-----------------------------------------------------------------------------
(* C9, C10: the lock *)

\* inside `async with _data_lock` at a suspension: the refusal being sent
InCritical(p) == cmd[p].pc = "deny_send"

\* the document a holds is b, but for zero records created in memory
SameLedger(a, b) ==
    /\ DOMAIN b \subseteq DOMAIN a
    /\ \A u \in DOMAIN a : a[u] = IF u \in DOMAIN b THEN b[u] ELSE NewRecord

\* C9: the persisted document always is what the commands leave when they
\* are applied one at a time in the order they acquired the lock (so it is
\* in the end, when all are over): no update is lost, and the document a
\* command holds while it is suspended under the lock is the result of
\* the commands that acquired the lock before it.
C9_SerialInLockOrder ==
    /\ disk = serial
    /\ \A p \in CmdIds : InCritical(p) => SameLedger(cmd[p].data, serial)

\* two commands that ran while neither was over have both saved, the
\* second on top of the first
C9_Witness ==
    \E p, q \in CmdIds :
        /\ p # q
        /\ cmd[p].pc = "reply" /\ cmd[p].saves = 1
        /\ cmd[q].pc = "reply" /\ cmd[q].saves = 1
        /\ disk = cmd[q].data
        /\ Total(cmd[q].data) > Total(cmd[p].data)
        /\ cmd[p].data # serial

\* a command that changes the ledger
Mutates(c) == c.outcome \in {"Granted", "Completed"}

\* at most one command is inside `async with _data_lock`, and it is the
\* holder; it has loaded once and has not saved
C10_OneAtATime ==
    \A p \in CmdIds :
        /\ InCritical(p) <=> holder = p
        /\ \A q \in CmdIds : InCritical(p) /\ InCritical(q) => p = q
        /\ cmd[p].pc \in {"idle", "wait"} =>
              cmd[p].loads = 0 /\ cmd[p].saves = 0
        /\ InCritical(p) => cmd[p].loads = 1 /\ cmd[p].saves = 0

\* every load is the step of a command that takes the free lock in its
\* turn, every save is in the step of the load, and the file changes in
\* a save only; the holder keeps the lock until it leaves the block
C10_ByHolder ==
    /\ \A p \in CmdIds :
          /\ cmd'[p].loads = cmd[p].loads + 1 =>
                /\ Enters(p)
                /\ holder = None /\ holder' \in {p, None}
                /\ IF cmd[p].pc = "idle" THEN waiters = <<>>
                   ELSE waiters # <<>> /\ Head(waiters) = p
          /\ cmd'[p].saves = cmd[p].saves + 1 =>
                /\ cmd'[p].loads = cmd[p].loads + 1
                /\ disk' = cmd'[p].data
          /\ (holder = p /\ holder' # p) =>
                cmd'[p].pc = "done" /\ holder' = None
    /\ disk' # disk =>
          \E p \in CmdIds : cmd'[p].saves = cmd[p].saves + 1

\* the handler of p returns in this step
Ends(p) == cmd[p].pc # "done" /\ cmd'[p].pc = "done"

\* one load, and one save exactly when the command changes the ledger
OneLoadOneSave(c) ==
    c.loads = 1 /\ c.saves = (IF Mutates(c) THEN 1 ELSE 0)

\* C10 as stated: at most one command is in its critical section, loads
\* and saves are the holder's, and each command performs exactly one load
\* and, exactly when it mutates, one save under the same acquisition.
C10_EachCommandLoadsOnce ==
    /\ []C10_OneAtATime
    /\ [][/\ C10_ByHolder
          /\ \A p \in CmdIds : Ends(p) => OneLoadOneSave(cmd[p])]_vars

\* C10: at most one command is in its critical section, loads and saves
\* are the holder's, and each command that reaches `async with _data_lock`
\* performs exactly one load and, exactly when it mutates, one save under
\* the same acquisition; a command refused by a check before the lock
\* (snuggle without a target or of oneself; give to a bot, of a
\* non-positive amount or to oneself) returns without taking the lock,
\* loading or saving.
C10_EachLockedCommandLoadsOnce ==
    /\ []C10_OneAtATime
    /\ [][/\ C10_ByHolder
          /\ \A p \in CmdIds :
                Ends(p) =>
                    IF cmd[p].pc = "idle"
                    THEN /\ \E c \in Commands :
                               EarlyReturn(c) # "" /\ Begin(p, c)
                         /\ disk' = disk /\ holder' = holder
                         /\ waiters' = waiters
                    ELSE OneLoadOneSave(cmd[p])]_vars

\* a command that loaded once and saved once is sending its reply while
\* another one, having loaded once, sends its refusal under the lock
C10_Witness ==
    \E p, q \in CmdIds :
        /\ p # q
        /\ cmd[p].pc = "reply" /\ cmd[p].loads = 1 /\ cmd[p].saves = 1
        /\ cmd[q].pc = "deny_send" /\ cmd[q].loads = 1 /\ holder = q

-----------------------------------------------------------------------------
(* C11: the records *)

\* the users whose record a command asks _ensure_user_record for
Accessed(c) ==
    CASE c.kind = "bal" -> {Target(c)}
      [] c.kind \in {"daily", "pet", "work"} -> {c.author}
      [] c.kind \in {"snuggle", "give"} -> {c.author, c.member}

\* no step takes a record out of the persisted document
RecordsStay == DOMAIN disk \subseteq DOMAIN disk'

\* C11 as stated: the record of every user a command accesses is in the
\* ledger document once the command has run its critical section,
\* whatever its outcome, and no later step removes a record.
C11_RecordOnFirstAccess ==
    [][/\ \A p \in CmdIds :
            Enters(p) => Accessed(cmd'[p]) \subseteq DOMAIN disk'
       /\ RecordsStay]_vars

\* C11: a command that changes the ledger (a Granted claim or snuggle, a
\* Completed give) leaves the records of all the users it accesses in the
\* persisted document; a command that does not (bal, a Denied claim or
\* snuggle, a give refused for insufficient funds) creates the missing
\* records as zero records in its own copy of the document only and
\* persists nothing; no step removes a record from the persisted
\* document.
C11_RecordOnFirstMutation ==
    [][/\ \A p \in CmdIds :
            LET c == cmd'[p] IN
            Enters(p) =>
                /\ Accessed(c) \subseteq DOMAIN c.data
                /\ IF Mutates(c)
                   THEN Accessed(c) \subseteq DOMAIN disk'
                   ELSE disk' = disk /\ SameLedger(c.data, disk)
       /\ RecordsStay]_vars

\* bal has answered for a user that has no record in the persisted
\* document: the zero record is in the command's copy only
C11_Witness ==
    \E p \in CmdIds :
        /\ cmd[p].kind = "bal"
        /\ cmd[p].pc = "reply"
        /\ Target(cmd[p]) \in DOMAIN cmd[p].data
        /\ Target(cmd[p]) \notin DOMAIN disk
        /\ disk # EmptyDoc

-----------------------------------------------------------------------------
(* C12: the status of a giveaway *)

\* the status of a giveaway, read off the position of its invocation and
\* the messages it has delivered.  Failed stands for every create that
\* has failed or is about to report its failure.
StatusOf(g, task, delivered) ==
    CASE task.pc = "idle" -> "None"
      [] task.pc \in {"send_embed", "add_reaction"} -> "Pending"
      [] task.pc = "sleep" -> "Waiting"
      [] task.pc \in {"fetch", "users", "send_result"} -> "Resolving"
      [] task.pc = "report" -> "Failed"
      [] task.pc \in {"returned", "raised"} ->
            IF "congratulations" \in Range(delivered)
            THEN "Resolved" ELSE "Failed"

Status(g) == StatusOf(g, gw[g], sent[g])

\* the steps the status may take
Forward ==
    {<<"None", "Pending">>, <<"None", "Failed">>,
     <<"Pending", "Waiting">>, <<"Pending", "Failed">>,
     <<"Waiting", "Resolving">>,
     <<"Resolving", "Resolved">>, <<"Resolving", "Failed">>}

\* how often a message is among those delivered
Count(seq, x) == Cardinality({i \in 1..Len(seq) : seq[i] = x})

\* C12: the status of a giveaway only moves forward along Pending ->
\* Waiting -> Resolving -> (Resolved | Failed): Resolving is entered from
\* Waiting with no time left on the timer, Resolved is reached from the
\* drawn winners of a fetched, live announcement with at least one
\* non-bot entrant, and from Resolved and Failed nothing moves on: the
\* invocation delivers at most the one report of its failure and never a
\* second resolution announcement.
C12_StatusMovesForward ==
    [][\A g \in GwTasks :
          LET old == Status(g)
              new == StatusOf(g, gw'[g], sent'[g])
          IN  /\ new = old \/ <<old, new>> \in Forward
              /\ (old = "Waiting" /\ new = "Resolving") => gw[g].left = 0
              /\ (old # "Resolved" /\ new = "Resolved") =>
                    /\ gw[g].pc = "send_result"
                    /\ message[g] = "live"
                    /\ gw[g].users # <<>>
                    /\ gw[g].chosen # <<>>
                    /\ \A u \in Range(gw[g].users) : ~IsBot(u)
              /\ old \in {"Resolved", "Failed"} =>
                    /\ gw'[g].pc \notin {"fetch", "users", "send_result",
                                         "sleep", "send_embed",
                                         "add_reaction"}
                    /\ sent'[g] # sent[g] =>
                          gw[g].pc = "report" /\ gw'[g].pc = "returned"
              /\ Count(sent'[g], "congratulations") <= 1
      ]_vars

\* a giveaway has been resolved: its winners were announced
C12_Witness ==
    \E g \in GwTasks :
        /\ gw[g].pc = "returned"
        /\ sent[g] = <<"giveaway", "congratulations">>

-----------------------------------------------------------------------------
(* C13: every failure is answered once *)

\* The bot with both families of commands, started where the members have
\* used up one of them: either the economy commands are all over and the
\* clock has made its ticks, or the giveaway invocations have all ended
\* (here: each was left by an exception before it had sent anything).
InitSessions ==
    /\ time_str = <<>>
    /\ parsed = FALSE
    /\ result = None
    /\ \/ /\ clock = Epoch + MaxTicks
          /\ InitGwVars
          /\ cmd = [p \in CmdIds |-> Over]
          /\ disk = EmptyDoc
          /\ holder = None
          /\ waiters = <<>>
          /\ ticks = MaxTicks
          /\ serial = EmptyDoc
          /\ replies = [p \in CmdIds |-> 1]
          /\ store = "ok"
       \/ /\ clock = Epoch
          /\ gw = [g \in GwTasks |-> [GwIdle EXCEPT !.pc = "raised"]]
          /\ sent = [g \in GwTasks |-> <<>>]
          /\ message = [g \in GwTasks |-> "none"]
          /\ reactions = [g \in GwTasks |-> {}]
          /\ withdrawn = [g \in GwTasks |-> {}]
          /\ \E doc \in InitDocs : InitEcoVars(doc)

NextSessions == NextGw \/ NextEco

SpecSessions == InitSessions /\ [][NextSessions]_vars

\* the texts create_gw sends on its failure paths
FailureReports ==
    {"usage", "bad_time", "bad_winners", "forbidden", "fetch_failed",
     "no_reactions", "users_failed", "no_participants"}

\* the failure reports among the messages delivered
Failures(seq) == SelectSeq(seq, LAMBDA x : x \in FailureReports)

\* the commands refused before the lock
RefusedCommands == {c \in Commands : EarlyReturn(c) # ""}

\* a giveaway invocation that fails makes the one send of its report and
\* returns: nothing is sent by the step that finds the failure, the report
\* is the last thing the invocation does, and it does nothing again
C13_GiveawayFailure(g) ==
    /\ (gw[g].pc # "report" /\ gw'[g].pc = "report") =>
          /\ gw'[g].report \in FailureReports
          /\ sent'[g] = sent[g]
          /\ Failures(sent[g]) = <<>>
    /\ (gw[g].pc = "report" /\ gw'[g] # gw[g]) =>
          \/ /\ gw'[g].pc = "returned"
             /\ sent'[g] = Append(sent[g], gw[g].report)
          \/ /\ gw'[g].pc = "raised"
             /\ sent'[g] = sent[g]
    /\ gw[g].pc \in {"returned", "raised"} =>
          gw'[g] = gw[g] /\ sent'[g] = sent[g]

\* an economy command that is refused (on its arguments before the lock,
\* or for an active cooldown or insufficient funds under it) makes one
\* send and returns; it has loaded at most once and saved nothing, and a
\* command that is over does nothing again
C13_CommandFailure(p) ==
    /\ (cmd[p].pc = "idle" /\ cmd'[p].pc = "done") =>
          /\ \E c \in RefusedCommands : Begin(p, c)
          /\ replies'[p] = 1
          /\ disk' = disk
    /\ (cmd[p].pc = "idle" /\ cmd'[p].pc \notin {"idle", "done"}) =>
          /\ EarlyReturn(cmd'[p]) = ""
          /\ replies'[p] = 0
    /\ cmd'[p].pc = "deny_send" =>
          /\ cmd'[p].outcome \in {"Denied", "InsufficientFunds"}
          /\ replies'[p] = 0
          /\ cmd'[p].loads = 1 /\ cmd'[p].saves = 0
    /\ (cmd[p].pc = "deny_send" /\ cmd'[p] # cmd[p]) =>
          /\ cmd'[p].pc = "done"
          /\ replies'[p] = 1
          /\ disk' = disk
    /\ cmd[p].pc = "done" => cmd'[p] = cmd[p] /\ replies'[p] = replies[p]

\* C13: every failure of a giveaway or economy command (invalid duration,
\* invalid winner count, announcement refused, announcement unavailable
\* at resolution, no participants, cooldown active, rejected transfer,
\* self-target) makes exactly one send of an explanation and is never
\* retried: no invocation delivers two failure reports, no command makes
\* two sends, and an invocation that has failed takes no further step.
C13_OneResponsePerFailure ==
    [][/\ <<gw, sent>>' # <<gw, sent>> =>
            \A g \in GwTasks :
                /\ C13_GiveawayFailure(g)
                /\ Len(Failures(sent'[g])) <= 1
       /\ <<cmd, replies>>' # <<cmd, replies>> =>
            \A p \in CmdIds :
                /\ C13_CommandFailure(p)
                /\ replies'[p] <= 1]_vars

\* a giveaway with no participants has been answered, once
C13_Witness ==
    \E g \in GwTasks :
        /\ gw[g].pc = "returned"
        /\ sent[g] = <<"giveaway", "no_participants">>

-----------------------------------------------------------------------------
(* C14: a create that fails schedules nothing *)

\* the reports of a create that failed before its timer
CreateFailures == {"usage", "bad_time", "bad_winners", "forbidden"}

\* the positions of an invocation whose giveaway is scheduled or resolving
Scheduled == {"sleep", "fetch", "users", "send_result"}

\* the commands whose time does not parse, and those among the others
\* whose winner count is not a positive integer
BadTimeInputs ==
    {raw \in RawInputs : Len(raw) >= 2 /\ parse_time_string(raw[1]) = None}

BadWinnersInputs ==
    {raw \in RawInputs \ BadTimeInputs :
        /\ Len(raw) >= 2
        /\ LET winners == IntOrValueError(raw[Len(raw)])
           IN  winners = None \/ winners < 1}

\* C14: a create that fails schedules nothing.  The time is validated
\* before the winner count (a command with both invalid is answered with
\* the time error); a validation error publishes no announcement; the
\* timer starts only once the announcement is published and the bot's
\* reaction is on it; and an invocation that has found a validation error
\* or a refused publish or reaction never starts a timer, never takes a
\* resolution step and never announces a result.
C14_FailedCreateSchedulesNothing ==
    [][\A g \in GwTasks :
          /\ (gw[g].pc = "idle" /\ gw'[g].pc # "idle") =>
                /\ sent'[g] = sent[g] /\ message'[g] = "none"
                /\ \A raw \in BadTimeInputs :
                      CreateGw(g, raw) =>
                          gw'[g].pc = "report" /\ gw'[g].report = "bad_time"
                /\ \A raw \in BadWinnersInputs :
                      CreateGw(g, raw) =>
                          gw'[g].pc = "report" /\ gw'[g].report = "bad_winners"
          /\ (gw[g].pc # "sleep" /\ gw'[g].pc = "sleep") =>
                /\ gw[g].pc = "add_reaction"
                /\ sent[g] = <<"giveaway">>
                /\ message[g] = "live"
                /\ SelfBot \in reactions'[g]
          /\ (gw[g].pc = "report" /\ gw[g].report \in CreateFailures) =>
                /\ gw'[g].pc \in {"report", "returned", "raised"}
                /\ gw[g].report # "forbidden" =>
                      sent[g] = <<>> /\ message[g] = "none"
          /\ (gw'[g].pc \in {"returned", "raised"}
                /\ Range(sent'[g]) \cap CreateFailures # {}) =>
                /\ gw[g].pc \notin Scheduled
                /\ "congratulations" \notin Range(sent'[g])
          /\ (gw[g].pc \in {"returned", "raised"}) =>
                gw'[g] = gw[g] /\ sent'[g] = sent[g]
      ]_vars

\* the announcement was published, the reaction was refused and the
\* refusal reported: nothing is scheduled
C14_Witness ==
    \E g \in GwTasks :
        /\ gw[g].pc = "returned"
        /\ sent[g] = <<"giveaway", "forbidden">>
        /\ message[g] = "live"
        /\ SelfBot \notin reactions[g]

-----------------------------------------------------------------------------
(* C15: giveaways and commands side by side *)

\* Two invocations of create_gw and one economy command on one event
\* loop.  The giveaways are created with valid arguments, a wait of no or
\* one second and one or two winners; members enter and no entry or
\* announcement is removed; the command is a daily of a member whose
\* cooldown has one second left to run.
Pair == {1, 2}

PairInputs == {<<"0">>, <<"1">>} \X {<<"1">>, <<"2">>}

PairCommands == {CmdInput("daily", 1, None, None, DAILY_AMOUNT)}

InitPair ==
    /\ time_str = <<>>
    /\ parsed = FALSE
    /\ result = None
    /\ clock = Epoch
    /\ gw = [g \in Pair |-> GwIdle]
    /\ sent = [g \in Pair |-> <<>>]
    /\ message = [g \in Pair |-> "none"]
    /\ reactions = [g \in Pair |-> {}]
    /\ withdrawn = [g \in Pair |-> {}]
    /\ InitEcoVars(UsedDoc)

NextPair ==
    \/ \E g \in Pair, raw \in PairInputs : CreateGw(g, raw)
    \/ \E g \in Pair : SendReport(g)
    \/ \E g \in Pair : SendEmbed(g)
    \/ \E g \in Pair : AddReaction(g)
    \/ \E g \in Pair : Wake(g)
    \/ \E g \in Pair : FetchMessage(g)
    \/ \E g \in Pair : ReadUsers(g)
    \/ \E g \in Pair : SendResult(g)
    \/ \E g \in Pair, u \in Humans : React(g, u)
    \/ Tick
    \/ \E c \in PairCommands : Begin(1, c)
    \/ DenySend(1)
    \/ Reply(1)
    \/ EcoTick

SpecPair == InitPair /\ [][NextPair]_vars


\* all there is of one giveaway: its invocation, what it has sent, and its
\* announcement in the channel
TaskView(g) == <<gw[g], sent[g], message[g], reactions[g], withdrawn[g]>>

\* no step of a giveaway waits for another task: the step an invocation is
\* at can be taken whatever the other invocation and the command are doing
C15_NothingDelaysAGiveaway ==
    \A g \in Pair :
        /\ gw[g].pc = "idle" => \A raw \in PairInputs : ENABLED CreateGw(g, raw)
        /\ gw[g].pc = "send_embed" => ENABLED SendEmbed(g)
        /\ gw[g].pc = "add_reaction" => ENABLED AddReaction(g)
        /\ (gw[g].pc = "sleep" /\ gw[g].left = 0) => ENABLED Wake(g)
        /\ gw[g].pc = "fetch" => ENABLED FetchMessage(g)
        /\ gw[g].pc = "users" => ENABLED ReadUsers(g)
        /\ gw[g].pc = "send_result" => ENABLED SendResult(g)

\* the command is never queued, and can start whatever the giveaways do
C15_NothingDelaysTheCommand ==
    /\ cmd[1].pc # "wait" /\ waiters = <<>>
    /\ cmd[1].pc = "idle" => \A c \in PairCommands : ENABLED Begin(1, c)
    /\ cmd[1].pc = "deny_send" => ENABLED DenySend(1)
    /\ cmd[1].pc = "reply" => ENABLED Reply(1)

\* a step of one giveaway leaves the other as it is (a second that passes
\* runs down both timers), reads the entrants off its own announcement,
\* and giveaways and commands leave each other's state alone
C15_Separate ==
    /\ \A g \in Pair, h \in Pair :
          (g # h /\ TaskView(g)' # TaskView(g)) =>
              \/ TaskView(h)' = TaskView(h)
              \/ /\ gw[h].pc = "sleep" /\ gw[h].left > 0
                 /\ gw'[h] = [gw[h] EXCEPT !.left = @ - 1]
                 /\ gw[g].pc = "sleep" /\ gw[g].left > 0
    /\ \A g \in Pair :
          (gw[g].pc = "users" /\ gw'[g].pc = "send_result") =>
              Range(gw'[g].users) = NotBots(reactions[g])
    /\ gwVars' # gwVars => UNCHANGED <<ecoVars, clock>>
    /\ ecoVars' # ecoVars => UNCHANGED gwVars

\* C15: giveaways are independent tasks.  While one giveaway is suspended
\* in its wait the other can be created and can resolve, each resolves
\* against the entrants of its own announcement, no giveaway step waits
\* for the ledger lock or for the other giveaway, and the command is never
\* kept waiting by a giveaway.
C15_IndependentTasks ==
    /\ []C15_NothingDelaysAGiveaway
    /\ []C15_NothingDelaysTheCommand
    /\ [][C15_Separate]_vars

\* one giveaway still waits while the other, with other entrants, has read
\* its entrants and is about to announce its winners, and the command
\* holds the lock over its refusal
C15_Witness ==
    /\ gw[1].pc = "sleep" /\ gw[1].left > 0
    /\ gw[2].pc = "send_result"
    /\ Range(gw[2].users) = NotBots(reactions[2])
    /\ NotBots(reactions[1]) # {}
    /\ NotBots(reactions[1]) # NotBots(reactions[2])
    /\ holder = 1

-----------------------------------------------------------------------------
(* C16: bal *)

\* the balance a bal command shows: record['balance'] of the record it
\* looked up under the lock (line 210), sent at line 216
Shown(c) == c.data[Target(c)].balance

\* the balances and timestamps of a document are those of another
SameRecords(a, b) ==
    \A u \in Users :
        /\ Balance(a, u) = Balance(b, u)
        /\ \A f \in StampFields : Stamp(a, u, f) = Stamp(b, u, f)

\* C16: bal is read-only and idempotent.  A bal command shows the
\* persisted balance of its target as it is when the command takes the
\* lock (0 for a member with no record) and keeps showing that value
\* until it is sent; it changes no balance and no timestamp of the
\* persisted document and never saves; and the persisted balances change
\* only in the step of a command that is granted or completed.  So bal
\* commands with no such command between them show the same balance.
C16_BalanceIsReadOnly ==
    [][/\ \A p \in CmdIds :
            /\ (Enters(p) /\ cmd'[p].kind = "bal") =>
                  /\ cmd'[p].pc = "reply"
                  /\ Shown(cmd'[p]) = Balance(disk, Target(cmd'[p]))
                  /\ disk' = disk
                  /\ cmd'[p].saves = 0
            /\ (cmd[p].kind = "bal" /\ cmd[p].pc = "reply") =>
                  /\ cmd'[p] \in {cmd[p], Over}
                  /\ cmd'[p] # cmd[p] => disk' = disk
       /\ ~SameRecords(disk', disk) =>
            \E p \in CmdIds : Enters(p) /\ Mutates(cmd'[p])]_vars

\* two bal commands about the same member, who has coins, one after the
\* other with nothing between them: both show the persisted balance
C16_Witness ==
    /\ cmd[1].kind = "bal" /\ cmd[1].pc = "reply"
    /\ cmd[2].kind = "bal" /\ cmd[2].pc = "reply"
    /\ Target(cmd[1]) = Target(cmd[2])
    /\ Shown(cmd[1]) = Shown(cmd[2])
    /\ Shown(cmd[1]) = Balance(disk, Target(cmd[1]))
    /\ Shown(cmd[1]) > 0

-----------------------------------------------------------------------------
(* C17: snuggle *)

\* the snuggles of a member with themselves
SelfSnuggles ==
    {c \in Commands : c.kind = "snuggle" /\ c.member = c.author}

\* C17: a snuggle of A with A is rejected in one step that changes
\* nothing.  A snuggle of A with B is denied exactly when A's persisted
\* last_snuggle is less than the cooldown before `now`, whatever B's is;
\* when denied it persists nothing; when granted one write credits A and
\* B with the same fixed reward and sets A's last_snuggle to `now`,
\* leaving B's timestamps, A's other timestamps and every other record as
\* they were.  The document changes in no other step of the snuggle.
C17_SnuggleStampsInitiatorOnly ==
    [][\A p \in CmdIds :
          /\ (cmd[p].pc = "idle" /\ cmd'[p].pc = "done") =>
                disk' = disk /\ holder' = holder /\ serial' = serial
          /\ (cmd[p].pc = "idle" /\ cmd'[p].pc # "idle") =>
                \A c \in SelfSnuggles : Begin(p, c) => cmd'[p].pc = "done"
          /\ (Enters(p) /\ cmd'[p].kind = "snuggle") =>
                LET c == cmd'[p]
                    a == c.author
                    b == c.member
                IN  /\ a # b
                    /\ c.reward = SnuggleReward
                    /\ (c.outcome = "Denied") <=>
                          (c.now - Stamp(disk, a, "last_snuggle")
                              < SNUGGLE_COOLDOWN)
                    /\ c.outcome \in {"Denied", "Granted"}
                    /\ c.outcome = "Denied" =>
                          disk' = disk /\ c.saves = 0
                    /\ c.outcome = "Granted" =>
                          /\ c.saves = 1
                          /\ {a, b} \subseteq DOMAIN disk'
                          /\ Balance(disk', a) = Balance(disk, a) + c.reward
                          /\ Balance(disk', b) = Balance(disk, b) + c.reward
                          /\ disk'[a].last_snuggle = c.now
                          /\ \A f \in StampFields \ {"last_snuggle"} :
                                disk'[a][f] = Stamp(disk, a, f)
                          /\ \A f \in StampFields :
                                disk'[b][f] = Stamp(disk, b, f)
                          /\ \A u \in DOMAIN disk' \ {a, b} :
                                u \in DOMAIN disk /\ disk'[u] = disk[u]
          /\ (/\ cmd[p].kind = "snuggle"
              /\ cmd[p].pc \in {"deny_send", "reply"}
              /\ disk' # disk) =>
                \E q \in CmdIds \ {p} : Enters(q)
      ]_vars

\* a member was snuggled and, within the same second, snuggles back: the
\* first snuggle left their own cooldown alone
C17_Witness ==
    /\ cmd[1].kind = "snuggle" /\ cmd[1].outcome = "Granted"
    /\ cmd[2].kind = "snuggle" /\ cmd[2].outcome = "Granted"
    /\ cmd[2].author = cmd[1].member /\ cmd[2].member = cmd[1].author
    /\ cmd[1].now = cmd[2].now
    /\ disk[cmd[1].author].last_snuggle = cmd[1].now
    /\ disk[cmd[2].author].last_snuggle = cmd[2].now
    /\ Balance(disk, cmd[1].author) > 2 * SnuggleReward

-----------------------------------------------------------------------------
(* C18: a store that cannot be written *)

\* the file system starts or stops taking writes of economy.json
StoreTurns ==
    /\ store' \in {"ok", "refuses", "breaks"} \ {store}
    /\ UNCHANGED <<parseVars, gwVars, clock, cmd, disk, holder, waiters,
                   ticks, serial, replies>>

NextFaulty == NextEco \/ StoreTurns

\* the economy commands over a store that may fail a write.  Here serial
\* is the last committed document: it follows the writes that succeed.
SpecFaulty == InitEco /\ [][NextFaulty]_vars

\* an invocation whose _write_data raised: its mutated document was not
\* committed
Uncommitted(p) == cmd[p].pc = "raised"

\* C18: when the store cannot be written during a mutating command, the
\* command sends no success response, the lock is not released to later
\* commands while the mutated document is uncommitted (no command runs
\* its critical section after a save has failed), and no command loads a
\* store that lacks the last committed document.
C18_FailedSaveKeepsTheLock ==
    [][/\ \A p \in CmdIds :
            Uncommitted(p) => cmd'[p] = cmd[p] /\ replies'[p] = replies[p]
       /\ \A p \in CmdIds, q \in CmdIds :
            Uncommitted(p) => ~(cmd'[q].loads = cmd[q].loads + 1)
       /\ \A q \in CmdIds :
            cmd'[q].loads = cmd[q].loads + 1 => disk = serial]_vars

-----------------------------------------------------------------------------
(* C19: the lock and the response *)

\* the invocation is at the ctx.send of its response
AtSend(p) == cmd[p].pc \in {"reply", "deny_send"}

\* C19: the lock spans only load, modification and save.  On every
\* outcome (Granted, Completed, Denied, InsufficientFunds) the lock is
\* released before the response is sent: no invocation is at the send of
\* its response while it holds the lock, so no command is queued for the
\* lock behind a send.
C19_LockReleasedBeforeResponse ==
    \A p \in CmdIds :
        AtSend(p) =>
            /\ holder # p
            /\ \A q \in CmdIds : cmd[q].pc = "wait" => holder = None

-----------------------------------------------------------------------------
(* C20: every published giveaway ends *)

\* the next step of the invocation g, whichever await it is at
Step(g) ==
    \/ SendReport(g)
    \/ SendEmbed(g)
    \/ AddReaction(g)
    \/ Wake(g)
    \/ FetchMessage(g)
    \/ ReadUsers(g)
    \/ SendResult(g)

\* The giveaways on an event loop that keeps running: time passes while a
\* timer runs, and an invocation whose await can return (the channel
\* answers, with a result or an error; the timer has run down) is resumed.
\* Nothing is assumed of the members and moderators: they may enter, take
\* the bot's reaction off the announcement and delete the announcement,
\* or do nothing.
NextGwFair ==
    \/ \E g \in GwTasks, raw \in RawInputs : CreateGw(g, raw)
    \/ \E g \in GwTasks : Step(g)
    \/ \E g \in GwTasks, u \in Humans : React(g, u)
    \/ \E g \in GwTasks : Unreact(g, SelfBot)
    \/ \E g \in GwTasks : DeleteMessage(g)
    \/ Tick

SpecGwFair ==
    /\ InitGw
    /\ [][NextGwFair]_vars
    /\ WF_vars(Tick)
    /\ \A g \in GwTasks : WF_vars(Step(g))

\* the invocation has published its announcement and has not ended
Published(g) == gw[g].pc \in {"add_reaction"} \cup Scheduled

\* the handler is over: the result or a failure was sent, or an exception
\* left it
Terminal(g) == gw[g].pc \in {"returned", "raised"}

\* C20: every giveaway whose announcement was published ends, resolved or
\* failed, whatever the members do to its entries and its announcement
\* meanwhile; and the winner count it resolves with is the one given at
\* creation: it is set from the last token of the command and not changed
\* by any step up to the draw, which takes min(winners, entrants).
C20_PublishedGiveawayEnds ==
    /\ \A g \in GwTasks : Published(g) ~> Terminal(g)
    /\ [][\A g \in GwTasks :
            /\ (gw[g].pc = "idle" /\ gw'[g].pc = "send_embed") =>
                  \E raw \in RawInputs :
                      /\ CreateGw(g, raw)
                      /\ gw'[g].winners = IntOrValueError(raw[Len(raw)])
            /\ (Published(g) /\ gw'[g].pc \in {"sleep", "fetch", "users"}) =>
                  gw'[g].winners = gw[g].winners
            /\ (gw[g].pc = "users" /\ gw'[g].pc = "send_result") =>
                  Len(gw'[g].chosen) = Min(gw[g].winners, Len(gw'[g].users))
      ]_vars

\* the announcement was deleted during the wait: the giveaway has ended
\* all the same, with its failure reported
C20_Witness ==
    \E g \in GwTasks :
        /\ gw[g].pc = "returned"
        /\ sent[g] = <<"giveaway", "fetch_failed">>
        /\ message[g] = "deleted"

====
